---- MODULE Spec2Model ----
(***************************************************************************)
(* A model of parse_bytecode (src/byteparser.rs): the reconstruction of an *)
(* AST (instruction nodes, rodata nodes, sizes) from an object file.  The  *)
(* object file is the input, fixed in Init; every loop iteration of        *)
(* parse_bytecode is one action, so that the order in which the function   *)
(* reads the object and writes the AST is visible.                         *)
(***************************************************************************)
EXTENDS Integers, Sequences, FiniteSets, TLC

VARIABLES
    sections,       \* obj.sections(): the object's sections, in file order
    symbols,        \* obj.symbols(): the object's symbol table, in file order
    pc,             \* position of parse_bytecode
    result,         \* what parse_bytecode ended with
    ro_section,     \* index of the located rodata section, 0 for None
    rodata_table,   \* HashMap: symbol address -> symbol name
    rodata_offset,  \* running rodata offset (line 51)
    ast,            \* the AST under construction
    symIdx,         \* position of the `for symbol in obj.symbols()` loop
    secIdx,         \* position of the `for section in obj.sections()` loop
    offset,         \* decode offset in the current text section (line 103)
    relIdx,         \* position of the `for rel in section.relocations()` loop
    origin,         \* history: for each ast.nodes entry, the section it came from
    decoded,        \* history: ast.nodes as decoded, before any patching
    resolved        \* history: <<section, entry>> of each relocation handled

vars == <<sections, symbols, pc, result, ro_section, rodata_table,
          rodata_offset, ast, symIdx, secIdx, offset, relIdx, origin, decoded,
          resolved>>

input == <<sections, symbols>>

history == <<origin, decoded, resolved>>

----------------------------------------------------------------------------
(* Bounds of the input objects.                                            *)

MaxSections == 3
MaxSymbols == 2
MaxInstrs == 2
MaxRelocs == 2

----------------------------------------------------------------------------
(* Program constants.                                                      *)

LDDW_INSTRUCTION_SIZE == 16
STANDARD_INSTRUCTION_SIZE == 8

\* Opcode bytes of the instruction set (sbpf_common::opcode::Opcode).
OP_LDDW == 24        \* 0x18  lddw dst, imm64
OP_MOV64_IMM == 183  \* 0xb7  mov64 dst, imm
OP_MOV64_REG == 191  \* 0xbf  mov64 dst, src
OP_EXIT == 149       \* 0x95  exit
OP_UNKNOWN == 255    \* 0xff  no opcode of the instruction set

\* Section names are sequences of name pieces, so that a prefix test is a
\* test on the name and not on an opaque string.
RODATA_PREFIX == <<".rodata">>
TEXT_NAME == <<".text">>

StartsWith(name, prefix) ==
    /\ Len(name) >= Len(prefix)
    /\ SubSeq(name, 1, Len(prefix)) = prefix

\* symbol.name() fails on a name that is not valid UTF-8.
InvalidUtf8 == "<invalid-utf8>"

\* RelocationTarget other than Symbol(_) (a section or an absolute target).
NonSymbolTarget == 0

\* symbol.section_index() of an undefined symbol, and ro_section when no
\* rodata section exists.
None == 0

----------------------------------------------------------------------------
(* The input objects.  A section is [name, data, relocs, readable]: its    *)
(* name, its bytes, its relocation entries (offset, target) and whether    *)
(* section.data() succeeds.  A symbol is [name, address, size, section].   *)

SeqsUpTo(S, n) == UNION {[1..k -> S] : k \in 0..n}

Flatten(ss) ==
    LET F[i \in 0..Len(ss)] == IF i = 0 THEN <<>> ELSE F[i-1] \o ss[i]
    IN F[Len(ss)]

\* The bytes of one instruction: opcode, src<<4|dst, 16-bit offset field,
\* 32-bit little-endian immediate; lddw carries a second 8-byte slot holding
\* the upper half of its immediate.
Encode(op, dst, src, imm) ==
    LET slot == <<op, src * 16 + dst, 0, 0, imm, 0, 0, 0>>
    IN IF op = OP_LDDW THEN slot \o <<0, 0, 0, 0, 0, 0, 0, 0>> ELSE slot

\* Pieces a text section is made of: whole instructions, and a 4-byte
\* fragment (a text section cut in the middle of an instruction).
TextPieces ==
    { Encode(OP_LDDW, 1, 0, 4),
      Encode(OP_MOV64_IMM, 1, 0, 0),
      Encode(OP_MOV64_REG, 1, 2, 0),
      Encode(OP_EXIT, 0, 0, 0),
      Encode(OP_UNKNOWN, 0, 0, 0),
      <<OP_LDDW, 1, 0, 0>> }

Texts == {Flatten(ps) : ps \in SeqsUpTo(TextPieces, MaxInstrs)}

Rel(off, target) == [offset |-> off, target |-> target]

RelocChoices ==
    [offset : {0, STANDARD_INSTRUCTION_SIZE}, target : {NonSymbolTarget, 1, 2}]

RelocLists == SeqsUpTo(RelocChoices, MaxRelocs)

RoBytes == <<10, 11, 12, 13, 14, 15, 16, 17>>

SectionNames ==
    { <<".rodata">>, <<".rodata", ".str1.1">>, <<".text">>, <<".text", ".cold">>,
      <<".debug", "_info">>, <<".debug", "_line">> }

\* The section of a given name in an object whose text sections all carry
\* `text` and `relocs`.
MkSection(name, text, relocs, readable) ==
    [ name |-> name,
      data |-> IF StartsWith(name, RODATA_PREFIX) THEN RoBytes
               ELSE IF name = TEXT_NAME THEN text
               ELSE <<222, 173>>,
      relocs |-> IF name = TEXT_NAME THEN relocs ELSE <<>>,
      readable |-> readable ]

MkSym(name, address, size, section) ==
    [name |-> name, address |-> address, size |-> size, section |-> section]

SymbolChoices ==
    [name : {"A", "B"}, address : {0, 4}, size : {0, 4}, section : {1, 2}]
    \cup { MkSym(InvalidUtf8, 0, 4, 1), MkSym("A", 8, 4, 1), MkSym("B", 4, 4, None) }

\* A section whose data cannot be read matters for the two kinds of section
\* parse_bytecode reads.
SectionChoices ==
    (SectionNames \X {TRUE}) \cup {<<RODATA_PREFIX, FALSE>>, <<TEXT_NAME, FALSE>>}

\* Objects that differ in their section layout.
LayoutObjects(secs, syms) ==
    \E ns \in SeqsUpTo(SectionChoices, MaxSections) \ {<<>>},
       rs \in {<<>>, <<Rel(0, 1)>>} :
        /\ secs = [i \in 1..Len(ns) |->
                     MkSection(ns[i][1], Encode(OP_LDDW, 1, 0, 0), rs, ns[i][2])]
        /\ syms = <<MkSym("A", 0, 4, 1), MkSym("B", 4, 4, 2)>>

\* Objects that differ in their symbol table.
SymbolObjects(secs, syms) ==
    \E ss \in SeqsUpTo(SymbolChoices, MaxSymbols),
       rs \in {<<>>, <<Rel(0, 1)>>} :
        /\ secs = <<MkSection(<<".rodata">>, <<>>, <<>>, TRUE),
                    MkSection(TEXT_NAME, Encode(OP_LDDW, 1, 0, 4), rs, TRUE)>>
        /\ syms = ss

\* Section layouts and symbol tables of the objects that differ in their
\* text section.
TextLayouts ==
    { <<<<".rodata", ".str1.1">>, TEXT_NAME>>, <<TEXT_NAME>> }

TextSymbols ==
    { <<MkSym("A", 0, 4, 1), MkSym("B", 4, 4, 1)>>,
      <<MkSym("B", 4, 4, 1), MkSym("A", 0, 4, 2)>>,
      <<MkSym("A", 0, 4, 1)>> }

RelocSamples ==
    { <<>>, <<Rel(0, 1)>>, <<Rel(8, 2)>>, <<Rel(0, 1), Rel(0, 2)>>,
      <<Rel(0, NonSymbolTarget), Rel(8, 1)>> }

TextSamples ==
    { Encode(OP_LDDW, 1, 0, 4) \o Encode(OP_MOV64_IMM, 1, 0, 0),
      Encode(OP_MOV64_IMM, 1, 0, 0) \o Encode(OP_LDDW, 1, 0, 4),
      Encode(OP_EXIT, 0, 0, 0) \o Encode(OP_MOV64_REG, 1, 2, 0),
      Encode(OP_MOV64_REG, 1, 2, 0) \o Encode(OP_EXIT, 0, 0, 0) }

\* Objects that differ in the bytes of their text section.
TextObjects(secs, syms) ==
    \E ns \in TextLayouts, ss \in TextSymbols, t \in Texts, rs \in RelocSamples :
        /\ secs = [i \in 1..Len(ns) |-> MkSection(ns[i], t, rs, TRUE)]
        /\ syms = ss

\* Objects with one rodata section holding two symbols, and every text
\* section with every list of relocation entries.
ProductObjects(secs, syms) ==
    \E t \in Texts, rs \in RelocLists :
        /\ secs = <<MkSection(RODATA_PREFIX, t, rs, TRUE), MkSection(TEXT_NAME, t, rs, TRUE)>>
        /\ syms = <<MkSym("A", 0, 4, 1), MkSym("B", 4, 4, 1)>>

\* Objects that differ in the relocation entries of their text section.
RelocObjects(secs, syms) ==
    \E ns \in TextLayouts, ss \in TextSymbols, t \in TextSamples, rs \in RelocLists :
        /\ secs = [i \in 1..Len(ns) |-> MkSection(ns[i], t, rs, TRUE)]
        /\ syms = ss

----------------------------------------------------------------------------
(* The functions parse_bytecode is made of.                                *)

IsRodata(section) == StartsWith(section.name, RODATA_PREFIX)

\* obj.sections().find(..): the first section whose name starts with
\* ".rodata", None when there is none.
FindRodata(secs) ==
    IF \E i \in 1..Len(secs) : IsRodata(secs[i])
    THEN CHOOSE i \in 1..Len(secs) :
            /\ IsRodata(secs[i])
            /\ \A j \in 1..(i-1) : ~IsRodata(secs[j])
    ELSE None

RodataCount(secs) == Cardinality({i \in 1..Len(secs) : IsRodata(secs[i])})

\* TooManyRodata with a plausible slip: an off-by-one threshold.
TooManyRodataOffByOne(count) == count > 2

TooManyRodata(count) == count > 1

\* The symbols the rodata loop handles.
Eligible(symbol, ro) == symbol.section = ro /\ symbol.size > 0

\* ro_data[(symbol.address() + i) as usize] for i in 0..symbol.size():
\* an index past the end of the section data aborts.
SymbolInBounds(symbol, ro_data) == symbol.address + symbol.size <= Len(ro_data)

SymbolBytes(symbol, ro_data) ==
    [i \in 1..symbol.size |-> ro_data[symbol.address + i]]

\* RodataNode with a plausible slip: the node is placed at the symbol's
\* address instead of the running offset.
RodataNodeAtAddress(symbol, ro_data, off) ==
    [name |-> symbol.name, bytes |-> SymbolBytes(symbol, ro_data),
     offset |-> symbol.address]

RodataNode(symbol, ro_data, off) ==
    [name |-> symbol.name, bytes |-> SymbolBytes(symbol, ro_data), offset |-> off]

\* NodeLen with a plausible slip: a second opcode is taken for wide.
NodeLenWideMov(opbyte) ==
    IF opbyte \in {OP_LDDW, OP_MOV64_IMM}
    THEN LDDW_INSTRUCTION_SIZE ELSE STANDARD_INSTRUCTION_SIZE

\* Width of the encoding selected by the opcode byte.
NodeLen(opbyte) ==
    IF opbyte = OP_LDDW THEN LDDW_INSTRUCTION_SIZE ELSE STANDARD_INSTRUCTION_SIZE

\* Operand tokens.  An immediate is an i64, kept as its eight little-endian
\* bytes so that every bit pattern of the text section has a value.
Register(n) == [kind |-> "Register", reg |-> n, imm |-> <<>>, name |-> ""]
Immediate(v) == [kind |-> "ImmediateValue", reg |-> 0, imm |-> v, name |-> ""]
Identifier(label) == [kind |-> "Identifier", reg |-> 0, imm |-> <<>>, name |-> label]

\* The eight little-endian bytes of a natural number below 2^31.
LE64(n) ==
    <<n % 256, (n \div 256) % 256, (n \div 65536) % 256, (n \div 16777216) % 256,
      0, 0, 0, 0>>

\* i32::from_le_bytes(..) as i64: sign extension of a 32-bit field.
SignExtend(b) ==
    b \o (IF b[4] >= 128 THEN <<255, 255, 255, 255>> ELSE <<0, 0, 0, 0>>)

\* The 64-bit immediate of lddw: low half in the first slot, high half in
\* the second.
Imm64(node) == SubSeq(node, 5, 8) \o SubSeq(node, 13, 16)

\* Instruction::from_bytes(node): the opcode and operand list decoded from
\* the bytes of one node, or an error for bytes that are no instruction.
FromBytes(node) ==
    LET op == node[1]
        dst == node[2] % 16
        src == node[2] \div 16
    IN  IF op = OP_LDDW /\ Len(node) = LDDW_INSTRUCTION_SIZE
        THEN [ok |-> TRUE, opcode |-> op,
              operands |-> <<Register(dst), Immediate(Imm64(node))>>]
        ELSE IF op = OP_MOV64_IMM
        THEN [ok |-> TRUE, opcode |-> op,
              operands |-> <<Register(dst), Immediate(SignExtend(SubSeq(node, 5, 8)))>>]
        ELSE IF op = OP_MOV64_REG
        THEN [ok |-> TRUE, opcode |-> op, operands |-> <<Register(dst), Register(src)>>]
        ELSE IF op = OP_EXIT
        THEN [ok |-> TRUE, opcode |-> op, operands |-> <<>>]
        ELSE [ok |-> FALSE, opcode |-> op, operands |-> <<>>]

\* The offset an instruction node is tagged with.
NodeOffset(off, node_len) == off

\* ast.get_instruction_at_offset(offset): the first instruction node with
\* that offset, 0 when there is none.
GetInstructionAtOffset(nodes, off) ==
    IF \E i \in 1..Len(nodes) : nodes[i].offset = off
    THEN CHOOSE i \in 1..Len(nodes) :
            /\ nodes[i].offset = off
            /\ \A j \in 1..(i-1) : nodes[j].offset # off
    ELSE 0

\* The addend encoded in an instruction: its trailing operand when that is
\* an integer immediate, otherwise 0.
Addend(operands) ==
    IF Len(operands) > 0 /\ operands[Len(operands)].kind = "ImmediateValue"
    THEN operands[Len(operands)].imm
    ELSE LE64(0)

\* rodata_table.get(&(addend as u64)): the cast keeps the bit pattern.
HasLabel(table, addend) == \E a \in DOMAIN table : LE64(a) = addend

GetLabel(table, addend) == table[CHOOSE a \in DOMAIN table : LE64(a) = addend]

\* symbol_by_index(sym)
SymbolByIndex(syms, sym) == IF sym \in 1..Len(syms) THEN sym ELSE 0

\* ResolveRelocation with a plausible slip: a missing label skips the
\* relocation instead of failing.
ResolveRelocationSkipMissing(nodes, table, syms, ro, rel) ==
    LET at == GetInstructionAtOffset(nodes, rel.offset)
        addend == Addend(nodes[at].operands)
        last_idx == Len(nodes[at].operands)
    IN  IF rel.target = NonSymbolTarget
        THEN [status |-> "continue", nodes |-> nodes]
        ELSE IF SymbolByIndex(syms, rel.target) = 0
        THEN [status |-> "SymbolIndexError", nodes |-> nodes]
        ELSE IF syms[rel.target].section # ro
        THEN [status |-> "continue", nodes |-> nodes]
        ELSE IF at = 0
        THEN [status |-> "NoInstructionAtOffset", nodes |-> nodes]
        ELSE IF ~HasLabel(table, addend)
        THEN [status |-> "continue", nodes |-> nodes]
        ELSE IF last_idx = 0
        THEN [status |-> "panic", nodes |-> nodes]
        ELSE [status |-> "continue",
              nodes |-> [nodes EXCEPT ![at].operands[last_idx] =
                                      Identifier(GetLabel(table, addend))]]

\* ResolveRelocation with a plausible slip: the owning section of the
\* target symbol is not compared with the rodata section.
ResolveRelocationAnySection(nodes, table, syms, ro, rel) ==
    LET at == GetInstructionAtOffset(nodes, rel.offset)
        addend == Addend(nodes[at].operands)
        last_idx == Len(nodes[at].operands)
    IN  IF rel.target = NonSymbolTarget
        THEN [status |-> "continue", nodes |-> nodes]
        ELSE IF SymbolByIndex(syms, rel.target) = 0
        THEN [status |-> "SymbolIndexError", nodes |-> nodes]
        ELSE IF at = 0
        THEN [status |-> "NoInstructionAtOffset", nodes |-> nodes]
        ELSE IF ~HasLabel(table, addend)
        THEN [status |-> "LabelNotFound", nodes |-> nodes]
        ELSE IF last_idx = 0
        THEN [status |-> "panic", nodes |-> nodes]
        ELSE [status |-> "continue",
              nodes |-> [nodes EXCEPT ![at].operands[last_idx] =
                                      Identifier(GetLabel(table, addend))]]

\* The handling of one relocation entry of a text section when a rodata
\* section exists: status "continue" (next relocation), an error, or
\* "panic", and the instruction nodes afterwards.
ResolveRelocation(nodes, table, syms, ro, rel) ==
    LET at == GetInstructionAtOffset(nodes, rel.offset)
        addend == Addend(nodes[at].operands)
        last_idx == Len(nodes[at].operands)
    IN  IF rel.target = NonSymbolTarget
        THEN [status |-> "continue", nodes |-> nodes]
        ELSE IF SymbolByIndex(syms, rel.target) = 0
        THEN [status |-> "SymbolIndexError", nodes |-> nodes]
        ELSE IF syms[rel.target].section # ro
        THEN [status |-> "continue", nodes |-> nodes]
        ELSE IF at = 0
        THEN [status |-> "NoInstructionAtOffset", nodes |-> nodes]
        ELSE IF ~HasLabel(table, addend)
        THEN [status |-> "LabelNotFound", nodes |-> nodes]
        ELSE IF last_idx = 0
        THEN [status |-> "panic", nodes |-> nodes]
        ELSE [status |-> "continue",
              nodes |-> [nodes EXCEPT ![at].operands[last_idx] =
                                      Identifier(GetLabel(table, addend))]]

\* HasRelocations with a plausible slip: the count is never positive.
HasRelocationsNever(section) == Len(section.relocs) > Len(section.relocs)

\* section.relocations().count() > 0
HasRelocations(section) == Len(section.relocs) > 0

----------------------------------------------------------------------------
(* parse_bytecode, one action per step.                                    *)

Init ==
    /\ \/ LayoutObjects(sections, symbols)
       \/ SymbolObjects(sections, symbols)
       \/ TextObjects(sections, symbols)
       \/ RelocObjects(sections, symbols)
       \/ ProductObjects(sections, symbols)
    /\ pc = "locate"
    /\ result = "none"
    /\ ro_section = None
    /\ rodata_table = <<>>
    /\ rodata_offset = 0
    \* AST::new(); nothing in parse_bytecode writes debug_sections
    /\ ast = [nodes |-> <<>>, rodata_nodes |-> <<>>, rodata_size |-> 0,
              text_size |-> 0, debug_sections |-> <<>>]
    /\ symIdx = 1
    /\ secIdx = 1
    /\ offset = 0
    /\ relIdx = 1
    /\ origin = <<>>
    /\ decoded = <<>>
    /\ resolved = <<>>

\* return Err(..) / Ok(..): the function ends with a value.
Return(value) == pc' = "returned" /\ result' = value

\* A panic: the function ends without a value.
Abort == pc' = "aborted" /\ result' = "panic"

\* Lines 21-51: find the rodata section, reject a second one, read its data.
LocateSections ==
    /\ pc = "locate"
    /\ ro_section' = FindRodata(sections)
    /\ IF TooManyRodata(RodataCount(sections))
       THEN Return("MultipleRodata")
       ELSE IF ro_section' = None
       THEN pc' = "sections" /\ result' = result
       ELSE IF ~sections[ro_section'].readable
       THEN Return("RodataReadError")
       ELSE pc' = "symbols" /\ result' = result
    /\ UNCHANGED <<input, rodata_table, rodata_offset, ast, symIdx, secIdx,
                   offset, relIdx, history>>

\* Lines 52-87: one iteration of the loop over obj.symbols().
ReadSymbol ==
    /\ pc = "symbols"
    /\ symIdx <= Len(symbols)
    /\ LET symbol == symbols[symIdx]
           ro_data == sections[ro_section].data
       IN  IF ~Eligible(symbol, ro_section)
           THEN /\ symIdx' = symIdx + 1
                /\ UNCHANGED <<pc, result, rodata_table, rodata_offset, ast>>
           ELSE IF symbol.name = InvalidUtf8
           THEN /\ Return("SymbolNameError")
                /\ UNCHANGED <<rodata_table, rodata_offset, ast, symIdx>>
           ELSE IF ~SymbolInBounds(symbol, ro_data)
           THEN /\ Abort
                /\ UNCHANGED <<rodata_table, rodata_offset, ast, symIdx>>
           ELSE /\ ast' = [ast EXCEPT !.rodata_nodes =
                            Append(@, RodataNode(symbol, ro_data, rodata_offset))]
                /\ rodata_table' =
                     [a \in DOMAIN rodata_table \cup {symbol.address} |->
                        IF a = symbol.address THEN symbol.name ELSE rodata_table[a]]
                /\ rodata_offset' = rodata_offset + symbol.size
                /\ symIdx' = symIdx + 1
                /\ UNCHANGED <<pc, result>>
    /\ UNCHANGED <<input, ro_section, secIdx, offset, relIdx, history>>

\* Line 88: ast.set_rodata_size(rodata_offset) after the loop.
FinishRodata ==
    /\ pc = "symbols"
    /\ symIdx > Len(symbols)
    /\ ast' = [ast EXCEPT !.rodata_size = rodata_offset]
    /\ pc' = "sections"
    /\ UNCHANGED <<input, result, ro_section, rodata_table, rodata_offset,
                   symIdx, secIdx, offset, relIdx, history>>

\* Lines 91-103: one iteration of the loop over obj.sections(), up to the
\* start of decoding for a section named ".text".
NextSection ==
    /\ pc = "sections"
    /\ secIdx <= Len(sections)
    /\ LET section == sections[secIdx]
       IN  IF section.name # TEXT_NAME
           THEN /\ secIdx' = secIdx + 1
                /\ UNCHANGED <<pc, result, offset>>
           ELSE IF ~section.readable
           THEN /\ Return("TextReadError")
                /\ UNCHANGED <<secIdx, offset>>
           ELSE /\ pc' = "decode"
                /\ offset' = 0
                /\ UNCHANGED <<result, secIdx>>
    /\ UNCHANGED <<input, ro_section, rodata_table, rodata_offset, ast, symIdx,
                   relIdx, history>>

\* Lines 104-120: one iteration of the decode loop.
DecodeInstruction ==
    /\ pc = "decode"
    /\ LET section_data == sections[secIdx].data
           node_len == NodeLen(section_data[offset + 1])
           node == SubSeq(section_data, offset + 1, offset + node_len)
           instruction == FromBytes(node)
       IN  /\ offset < Len(section_data)
           /\ IF offset + node_len > Len(section_data)
              THEN /\ Abort
                   /\ UNCHANGED <<ast, offset, history>>
              ELSE IF ~instruction.ok
              THEN /\ Return("DecodeError")
                   /\ UNCHANGED <<ast, offset, history>>
              ELSE /\ ast' = [ast EXCEPT !.nodes = Append(@,
                                [opcode |-> instruction.opcode,
                                 operands |-> instruction.operands,
                                 offset |-> NodeOffset(offset, node_len)])]
                   /\ origin' = Append(origin, secIdx)
                   /\ decoded' = Append(decoded, instruction.operands)
                   /\ resolved' = resolved
                   /\ offset' = offset + node_len
                   /\ UNCHANGED <<pc, result>>
    /\ UNCHANGED <<input, ro_section, rodata_table, rodata_offset, symIdx,
                   secIdx, relIdx>>

\* ast.set_text_size(section.size()) and the next section (line 192).
FinishSection ==
    /\ ast' = [ast EXCEPT !.text_size = Len(sections[secIdx].data)]
    /\ secIdx' = secIdx + 1
    /\ pc' = "sections"

\* FinishDecode with a plausible slip: the relocation loop may start while
\* bytes of the section are still to be decoded.
FinishDecodePremature ==
    /\ pc = "decode"
    /\ IF ro_section # None
       THEN /\ pc' = "relocs"
            /\ relIdx' = 1
            /\ UNCHANGED <<result, ast, secIdx>>
       ELSE IF HasRelocations(sections[secIdx])
       THEN /\ Return("DanglingRelocation")
            /\ UNCHANGED <<ast, secIdx, relIdx>>
       ELSE /\ FinishSection
            /\ UNCHANGED <<result, relIdx>>
    /\ UNCHANGED <<input, ro_section, rodata_table, rodata_offset, symIdx,
                   offset, history>>

\* Lines 104, 122-124, 187-192: the decode loop ends; with a rodata section
\* the relocation loop starts, without one any relocation is an error.
FinishDecode ==
    /\ pc = "decode"
    /\ offset >= Len(sections[secIdx].data)
    /\ IF ro_section # None
       THEN /\ pc' = "relocs"
            /\ relIdx' = 1
            /\ UNCHANGED <<result, ast, secIdx>>
       ELSE IF HasRelocations(sections[secIdx])
       THEN /\ Return("DanglingRelocation")
            /\ UNCHANGED <<ast, secIdx, relIdx>>
       ELSE /\ FinishSection
            /\ UNCHANGED <<result, relIdx>>
    /\ UNCHANGED <<input, ro_section, rodata_table, rodata_offset, symIdx,
                   offset, history>>

\* Lines 124-186: one iteration of the relocation loop.
ProcessRelocation ==
    /\ pc = "relocs"
    /\ relIdx <= Len(sections[secIdx].relocs)
    /\ LET r == ResolveRelocation(ast.nodes, rodata_table, symbols, ro_section,
                                  sections[secIdx].relocs[relIdx])
       IN  IF r.status = "continue"
           THEN /\ ast' = [ast EXCEPT !.nodes = r.nodes]
                /\ relIdx' = relIdx + 1
                /\ UNCHANGED <<pc, result>>
           ELSE IF r.status = "panic"
           THEN /\ Abort
                /\ UNCHANGED <<ast, relIdx>>
           ELSE /\ Return(r.status)
                /\ UNCHANGED <<ast, relIdx>>
    /\ resolved' = Append(resolved, <<secIdx, relIdx>>)
    /\ UNCHANGED <<input, ro_section, rodata_table, rodata_offset, symIdx,
                   secIdx, offset, origin, decoded>>

\* Line 192 after the relocation loop.
FinishRelocations ==
    /\ pc = "relocs"
    /\ relIdx > Len(sections[secIdx].relocs)
    /\ FinishSection
    /\ UNCHANGED <<input, result, ro_section, rodata_table, rodata_offset,
                   symIdx, offset, relIdx, history>>

\* Lines 196-197: ast.build_program() accepts the AST or reports errors.
BuildProgram ==
    /\ pc = "sections"
    /\ secIdx > Len(sections)
    /\ \E r \in {"Program", "BuildProgramError"} : Return(r)
    /\ UNCHANGED <<input, ro_section, rodata_table, rodata_offset, ast, symIdx,
                   secIdx, offset, relIdx, history>>

Next ==
    \/ LocateSections
    \/ ReadSymbol
    \/ FinishRodata
    \/ NextSection
    \/ DecodeInstruction
    \/ FinishDecode
    \/ ProcessRelocation
    \/ FinishRelocations
    \/ BuildProgram

Spec == Init /\ [][Next]_vars

----------------------------------------------------------------------------
(* Vocabulary of the properties.                                           *)

Terminated == pc \in {"returned", "aborted"}

TextSections == {i \in 1..Len(sections) : sections[i].name = TEXT_NAME}

\* The relocation entry the relocation loop is about to handle.
AtRelocation == pc = "relocs" /\ relIdx <= Len(sections[secIdx].relocs)

CurRel == sections[secIdx].relocs[relIdx]

\* The relocation's target is a symbol of the object.
SymbolTargeted(rel) == rel.target # NonSymbolTarget /\ rel.target \in 1..Len(symbols)

\* The relocation's target is a symbol owned by the rodata section.
RodataTargeted(rel) ==
    /\ ro_section # None
    /\ SymbolTargeted(rel)
    /\ symbols[rel.target].section = ro_section

Trailing(operands) == operands[Len(operands)]

Range(f) == {f[x] : x \in DOMAIN f}

\* The relocation has been resolved: an instruction at its offset ends in a
\* reference to a registered label.
Resolved(rel) ==
    \E i \in 1..Len(ast.nodes) :
        /\ ast.nodes[i].offset = rel.offset
        /\ Len(ast.nodes[i].operands) > 0
        /\ Trailing(ast.nodes[i].operands).kind = "Identifier"
        /\ Trailing(ast.nodes[i].operands).name \in Range(rodata_table)

----------------------------------------------------------------------------
(* C1: a relocation of the text section whose target symbol lies in the    *)
(* rodata section is never skipped silently.  When the relocation loop     *)
(* reaches such a relocation and no decoded instruction has the            *)
(* relocation's offset, or the addend read from that instruction's         *)
(* trailing operand is not registered in the rodata symbol table, the      *)
(* step returns a relocation error; and a Program is only ever returned    *)
(* with every such relocation resolved to a registered label.              *)

Unresolvable(rel) ==
    LET at == GetInstructionAtOffset(ast.nodes, rel.offset)
    IN  \/ at = 0
        \/ ~HasLabel(rodata_table, Addend(ast.nodes[at].operands))

C1_UnresolvableFails ==
    AtRelocation /\ RodataTargeted(CurRel) /\ Unresolvable(CurRel)
        => /\ pc' = "returned"
           /\ result' \in {"NoInstructionAtOffset", "LabelNotFound"}

C1_ProgramHasAllResolved ==
    result = "Program" =>
        \A s \in TextSections : \A k \in 1..Len(sections[s].relocs) :
            RodataTargeted(sections[s].relocs[k]) => Resolved(sections[s].relocs[k])

C1_NoSilentSkip == [][C1_UnresolvableFails]_vars /\ []C1_ProgramHasAllResolved

\* The parse has failed at a rodata-targeted relocation whose instruction
\* exists and holds an addend that is no registered address.
C1_Witness ==
    /\ pc = "returned"
    /\ result = "LabelNotFound"
    /\ Len(ast.nodes) > 0
    /\ RodataTargeted(CurRel)
    /\ GetInstructionAtOffset(ast.nodes, CurRel.offset) # 0

----------------------------------------------------------------------------
(* C2: after a successful parse, each instruction that is the target of a  *)
(* rodata-targeted relocation has as its trailing operand a symbolic       *)
(* reference to the label registered for the addend its trailing operand   *)
(* held when decoded (0 when that operand was no integer immediate), for   *)
(* every sequence of relocations, several at one offset included.          *)

\* The nodes of text section s with the given offset.
TargetsOf(s, rel) ==
    {i \in 1..Len(ast.nodes) : origin[i] = s /\ ast.nodes[i].offset = rel.offset}

C2_PatchedWithDecodedAddend ==
    result = "Program" =>
        \A s \in TextSections : \A k \in 1..Len(sections[s].relocs) :
            RodataTargeted(sections[s].relocs[k]) =>
                \A i \in TargetsOf(s, sections[s].relocs[k]) :
                    /\ Len(ast.nodes[i].operands) > 0
                    /\ HasLabel(rodata_table, Addend(decoded[i]))
                    /\ Trailing(ast.nodes[i].operands) =
                         Identifier(GetLabel(rodata_table, Addend(decoded[i])))

\* The same, for objects with a single text section whose relocations have
\* pairwise different offsets: what the code does guarantee.
C2_DistinctOffsets ==
    /\ Cardinality(TextSections) <= 1
    /\ \A s \in TextSections : \A k, l \in 1..Len(sections[s].relocs) :
          (/\ k # l
           /\ RodataTargeted(sections[s].relocs[k])
           /\ RodataTargeted(sections[s].relocs[l]))
              => sections[s].relocs[k].offset # sections[s].relocs[l].offset

C2_HoldsForDistinctOffsets == C2_DistinctOffsets => C2_PatchedWithDecodedAddend

----------------------------------------------------------------------------
(* C3: an object with more than one section whose name begins with         *)
(* ".rodata" makes parse_bytecode return the configuration-conflict error  *)
(* as an ordinary error value, before any rodata symbol is read and before *)
(* any byte of a text section is decoded.                                  *)

C3_MultipleRodataRejectedFirst ==
    (RodataCount(sections) > 1 /\ pc # "locate") =>
        /\ pc = "returned"
        /\ result = "MultipleRodata"
        /\ symIdx = 1
        /\ rodata_table = <<>>
        /\ ast.rodata_nodes = <<>>
        /\ secIdx = 1
        /\ ast.nodes = <<>>
        /\ decoded = <<>>

\* The error has been returned for an object that has symbols to read and a
\* text section to decode.
C3_Witness ==
    /\ result = "MultipleRodata"
    /\ RodataCount(sections) = 2
    /\ \E i \in 1..Len(symbols) : Eligible(symbols[i], ro_section)
    /\ \E s \in TextSections : Len(sections[s].data) > 0

----------------------------------------------------------------------------
(* C4: a text section that carries at least one relocation, in an object   *)
(* with no rodata section.                                                 *)

Dangling ==
    /\ RodataCount(sections) = 0
    /\ \E s \in TextSections : Len(sections[s].relocs) >= 1

\* C4 as stated: the parse fails as a whole, and the dangling-relocation
\* error is raised before any relocation is processed and without any
\* instruction having been decoded.
C4_DanglingBeforeDecoding ==
    Dangling =>
        /\ result \notin {"Program", "BuildProgramError"}
        /\ result = "DanglingRelocation" =>
              /\ relIdx = 1
              /\ ast.nodes = <<>>
              /\ decoded = <<>>

\* C4 as amended: the parse never returns a Program; it ends with the
\* dangling-relocation error unless reading or decoding the text section
\* fails or aborts first; and the dangling-relocation error is raised
\* before any relocation is processed but after every instruction of that
\* text section has been decoded.
C4_DanglingAfterDecoding ==
    Dangling =>
        /\ result \notin {"Program", "BuildProgramError"}
        /\ Terminated =>
              result \in {"DanglingRelocation", "TextReadError", "DecodeError", "panic"}
        /\ result = "DanglingRelocation" =>
              /\ relIdx = 1
              /\ [i \in 1..Len(ast.nodes) |-> ast.nodes[i].operands] = decoded
              /\ offset = Len(sections[secIdx].data)
              /\ Len(sections[secIdx].data) > 0 => Len(ast.nodes) > 0

\* The dangling-relocation error has been returned with instructions
\* decoded.
C4_Witness ==
    /\ Dangling
    /\ result = "DanglingRelocation"
    /\ Len(ast.nodes) = 2

----------------------------------------------------------------------------
(* C5: for an object with exactly one rodata section, once the rodata      *)
(* table is built the ReadOnlyData nodes are, in symbol-table order,       *)
(* exactly the symbols owned by that section with size > 0; each node's    *)
(* offset is the sum of the sizes of the nodes before it, each node        *)
(* carries exactly `size` bytes, and the recorded rodata total is the sum  *)
(* of the byte-lengths of the nodes.                                       *)

\* The rodata loop has run to its end.
RodataBuilt ==
    /\ ro_section # None
    /\ pc \in {"sections", "decode", "relocs"} \/ result \in {"Program", "BuildProgramError"}

EligibleSymbols ==
    SelectSeq(symbols, LAMBDA sym : sym.section = ro_section /\ sym.size > 0)

RECURSIVE SumSizes(_, _)
SumSizes(syms, n) == IF n = 0 THEN 0 ELSE SumSizes(syms, n - 1) + syms[n].size

RECURSIVE SumBytes(_, _)
SumBytes(nodes, n) == IF n = 0 THEN 0 ELSE SumBytes(nodes, n - 1) + Len(nodes[n].bytes)

C5_RodataNodesInEnumerationOrder ==
    (RodataCount(sections) = 1 /\ RodataBuilt) =>
        /\ Len(ast.rodata_nodes) = Len(EligibleSymbols)
        /\ \A i \in 1..Len(ast.rodata_nodes) :
              /\ ast.rodata_nodes[i].name = EligibleSymbols[i].name
              /\ ast.rodata_nodes[i].offset = SumSizes(EligibleSymbols, i - 1)
              /\ ast.rodata_nodes[i].offset = SumBytes(ast.rodata_nodes, i - 1)
              /\ Len(ast.rodata_nodes[i].bytes) = EligibleSymbols[i].size
              /\ \A b \in 1..EligibleSymbols[i].size :
                    ast.rodata_nodes[i].bytes[b] =
                      sections[ro_section].data[EligibleSymbols[i].address + b]
        /\ ast.rodata_size = SumBytes(ast.rodata_nodes, Len(ast.rodata_nodes))

\* The table is built from two eligible symbols that are enumerated against
\* their address order.
C5_Witness ==
    /\ RodataCount(sections) = 1
    /\ RodataBuilt
    /\ Len(ast.rodata_nodes) = 2
    /\ EligibleSymbols[1].address > EligibleSymbols[2].address
    /\ ast.rodata_nodes[2].offset = 4

----------------------------------------------------------------------------
(* C6: within a text section the offset of each Instruction node is the    *)
(* sum of the widths of the nodes before it, a node being 16 wide if its   *)
(* opcode is lddw and 8 wide otherwise, whatever its operands; offsets are *)
(* therefore strictly increasing, and a decoded text section is covered    *)
(* exactly by its nodes (length/8 nodes at multiples of 8 when all are     *)
(* standard; every offset after an lddw 8 more than with a standard        *)
(* instruction in its place).                                              *)

Width(node) ==
    IF node.opcode = OP_LDDW THEN LDDW_INSTRUCTION_SIZE ELSE STANDARD_INSTRUCTION_SIZE

\* The sum of the widths of the first n nodes that come from section s.
RECURSIVE WidthsBefore(_, _)
WidthsBefore(s, n) ==
    IF n = 0 THEN 0
    ELSE WidthsBefore(s, n - 1) + (IF origin[n] = s THEN Width(ast.nodes[n]) ELSE 0)

C6_OffsetsAreWidthSums ==
    /\ \A i \in 1..Len(ast.nodes) :
          ast.nodes[i].offset = WidthsBefore(origin[i], i - 1)
    /\ \A i, j \in 1..Len(ast.nodes) :
          (i < j /\ origin[i] = origin[j]) => ast.nodes[i].offset < ast.nodes[j].offset
    /\ pc = "relocs" =>
          WidthsBefore(secIdx, Len(ast.nodes)) = Len(sections[secIdx].data)
    /\ (pc = "relocs" /\ \A i \in 1..Len(ast.nodes) : ast.nodes[i].opcode # OP_LDDW) =>
          /\ Cardinality({i \in 1..Len(ast.nodes) : origin[i] = secIdx}) * STANDARD_INSTRUCTION_SIZE
                = Len(sections[secIdx].data)
          /\ \A i \in 1..Len(ast.nodes) : ast.nodes[i].offset % STANDARD_INSTRUCTION_SIZE = 0

\* A text section has been decoded into an lddw followed by a standard
\* instruction that carries an immediate.
C6_Witness ==
    /\ pc = "relocs"
    /\ Len(ast.nodes) = 2
    /\ ast.nodes[1].opcode = OP_LDDW
    /\ ast.nodes[2].opcode = OP_MOV64_IMM
    /\ ast.nodes[2].offset = 16

----------------------------------------------------------------------------
(* C7: for every input parse_bytecode ends by returning a Program or an    *)
(* error value and never aborts the process; in particular not for a text  *)
(* section with fewer bytes left than the width its opcode byte selects,   *)
(* a rodata symbol that reaches past the rodata section's data, or a       *)
(* rodata relocation aimed at an instruction without operands.             *)

C7_NeverAborts == pc # "aborted"

\* The three aborts, each of which the code reaches.
C7_AbortInDecode == pc = "aborted" /\ symIdx > Len(symbols) /\ Len(decoded) = 0

C7_AbortInRodata == pc = "aborted" /\ symIdx <= Len(symbols)

C7_AbortInRelocation ==
    /\ pc = "aborted"
    /\ relIdx <= Len(sections[secIdx].relocs)
    /\ GetInstructionAtOffset(ast.nodes, CurRel.offset) # 0

----------------------------------------------------------------------------
(* C8: every section whose name begins with the debug prefix is collected  *)
(* as a DebugBlob (name plus raw bytes), in the order the sections appear  *)
(* in the object, and the blobs are attached unmodified to the Program     *)
(* that parse_bytecode returns.                                            *)

\* The debug-section marker prefix of the specification.
DEBUG_PREFIX == <<".debug">>

RECURSIVE DebugBlobs(_)
DebugBlobs(secs) ==
    IF secs = <<>> THEN <<>>
    ELSE (IF StartsWith(Head(secs).name, DEBUG_PREFIX)
          THEN <<[name |-> Head(secs).name, data |-> Head(secs).data]>>
          ELSE <<>>) \o DebugBlobs(Tail(secs))

C8_DebugBlobsAttached ==
    result = "Program" => ast.debug_sections = DebugBlobs(sections)

----------------------------------------------------------------------------
(* C9: after the rodata table is built, every label assigned to a          *)
(* ReadOnlyData node is unique among the emitted nodes and the symbol      *)
(* table holds exactly one (address -> label) entry per emitted node, for  *)
(* every symbol list.                                                      *)

C9_LabelsUniqueOnePerNode ==
    RodataBuilt =>
        /\ \A i, j \in 1..Len(ast.rodata_nodes) :
              i # j => ast.rodata_nodes[i].name # ast.rodata_nodes[j].name
        /\ Cardinality(DOMAIN rodata_table) = Len(ast.rodata_nodes)

\* The same, for symbol lists whose eligible symbols have pairwise different
\* names and addresses: what the code does guarantee.
C9_HoldsForDistinctSymbols ==
    (\A i, j \in 1..Len(EligibleSymbols) :
        i # j => /\ EligibleSymbols[i].name # EligibleSymbols[j].name
                 /\ EligibleSymbols[i].address # EligibleSymbols[j].address)
        => C9_LabelsUniqueOnePerNode

----------------------------------------------------------------------------
(* C10: when a rodata section exists, a text relocation whose target is    *)
(* not a symbol, or whose target symbol is owned by another section than   *)
(* the rodata section, produces no error and leaves every Instruction node *)
(* and every ReadOnlyData node unchanged; no other relocation is ignored:  *)
(* handling it ends the parse or leaves a symbolic reference in the        *)
(* instruction at its offset.                                              *)

Ignorable(rel) ==
    \/ rel.target = NonSymbolTarget
    \/ SymbolTargeted(rel) /\ symbols[rel.target].section # ro_section

C10_IgnoredLeavesAstUnchanged ==
    (AtRelocation /\ Ignorable(CurRel)) =>
        /\ pc' = "relocs"
        /\ relIdx' = relIdx + 1
        /\ result' = "none"
        /\ ast' = ast
        /\ rodata_table' = rodata_table

C10_OthersAreHandled ==
    (AtRelocation /\ ~Ignorable(CurRel)) =>
        \/ pc' \in {"returned", "aborted"}
        \/ LET at == GetInstructionAtOffset(ast.nodes, CurRel.offset)
           IN  /\ at # 0
               /\ Trailing(ast'.nodes[at].operands).kind = "Identifier"

C10_OnlyNonRodataIgnored ==
    [][C10_IgnoredLeavesAstUnchanged /\ C10_OthersAreHandled]_vars

\* A relocation against a symbol of another section has been passed over
\* although the instruction at its offset holds a registered addend.
C10_Witness ==
    /\ pc = "relocs"
    /\ relIdx = 2
    /\ SymbolTargeted(sections[secIdx].relocs[1])
    /\ symbols[sections[secIdx].relocs[1].target].section # ro_section
    /\ LET at == GetInstructionAtOffset(ast.nodes, sections[secIdx].relocs[1].offset)
       IN  /\ at # 0
           /\ HasLabel(rodata_table, Addend(ast.nodes[at].operands))
           /\ ast.nodes[at].operands = decoded[at]

----------------------------------------------------------------------------
(* C11: the phases of a run happen forward.                                *)

\* The rodata table is complete before the first instruction is decoded,
\* and nothing is added to it afterwards.
RodataCompleteBeforeDecoding ==
    (decoded # <<>> /\ ro_section # None) => symIdx > Len(symbols)

RodataFrozenAfterDecoding ==
    (decoded # <<>> \/ resolved # <<>>) =>
        /\ ast'.rodata_nodes = ast.rodata_nodes
        /\ ast'.rodata_size = ast.rodata_size
        /\ rodata_table' = rodata_table
        /\ symIdx' = symIdx

\* C11 as stated: once a relocation has been handled, no further
\* instruction is decoded and no rodata node is added, also for an object
\* with more than one section named ".text".
NoDecodingAfterResolution ==
    resolved # <<>> =>
        /\ decoded' = decoded
        /\ Len(ast'.nodes) = Len(ast.nodes)
        /\ ast'.rodata_nodes = ast.rodata_nodes

C11_PhasesStrictlyForward ==
    /\ []RodataCompleteBeforeDecoding
    /\ [][RodataFrozenAfterDecoding]_vars
    /\ [][NoDecodingAfterResolution]_vars

\* C11 as amended: the order holds within each text section.  A section's
\* relocation loop runs only when the section is decoded to its end, an
\* instruction is decoded only for a section none of whose relocations has
\* been handled, and sections are visited in file order; with several
\* ".text" sections a later one is decoded after the relocations of an
\* earlier one.
ResolutionAfterDecoding ==
    pc = "relocs" => offset >= Len(sections[secIdx].data)

DecodingBeforeOwnResolution ==
    Len(decoded') > Len(decoded) =>
        /\ pc = "decode"
        /\ origin' = Append(origin, secIdx)
        /\ \A k \in 1..Len(resolved) : resolved[k][1] < secIdx

ResolutionOfDecodedSection ==
    Len(resolved') > Len(resolved) =>
        /\ pc = "relocs"
        /\ resolved' = Append(resolved, <<secIdx, relIdx>>)
        /\ decoded' = decoded
        /\ \A i \in 1..Len(origin) : origin[i] <= secIdx

C11_PhasesForwardPerSection ==
    /\ []RodataCompleteBeforeDecoding
    /\ []ResolutionAfterDecoding
    /\ [][RodataFrozenAfterDecoding]_vars
    /\ [][DecodingBeforeOwnResolution]_vars
    /\ [][ResolutionOfDecodedSection]_vars

\* Two text sections have each been decoded and had a relocation handled,
\* the second one decoded after the relocation of the first.
C11_Witness ==
    /\ ro_section # None
    /\ Len(resolved) = 2
    /\ resolved[1][1] < resolved[2][1]
    /\ Len(decoded) = 2
    /\ origin = <<resolved[1][1], resolved[2][1]>>

====
